---- MODULE Spec2Model ----
(***************************************************************************)
(* Model of src/3d_version_updated.py: class GasSimulation3d.              *)
(*                                                                         *)
(*   __init__      lines 15-45   constructor                               *)
(*   SetParticles  lines 47-92   grid placement and velocity assignment    *)
(*   Step          lines 122-197 free flight, pair collisions, walls       *)
(*                                                                         *)
(* numpy's float64 values are modelled as exact rationals <<num, den>>     *)
(* with den > 0 in lowest terms, plus the IEEE value NaN written <<0, 0>>. *)
(* Lengths are in units of radius/100, so the default radius is 100.       *)
(***************************************************************************)
EXTENDS Integers, Sequences, FiniteSets, TLC

VARIABLES
    partCount,      \* self.partCount
    mass,           \* self.mass
    radius,         \* self.radius
    volume,         \* self.volume
    temp,           \* self.temp
    cubicParts1,    \* self.cubicParts1
    cubicParts2,    \* self.cubicParts2
    sideLength,     \* self.sideLength
    velNormalized,  \* self.velNormalized
    attrs,          \* the array attributes that exist on self
    pos,            \* self.pos : row index -> <<x, y, z>>
    vel,            \* self.vel : row index -> <<vx, vy, vz>>
    partBelonging,  \* column 6 of self.partBelonging : grid slot -> index
    tape,           \* the values the random generator hands out, in order
    draws,          \* how many values have been drawn so far
    idx,            \* loop variable i of SetParticles
    pc,             \* position in the constructor / in Step
    err,            \* exception that ended the constructor, or "none"
    dt,             \* argument of the Step call in progress (or last made)
    pairs,          \* zip(ind1, ind2) still to be resolved in Step
    steps           \* number of Step calls that have returned

vars == <<partCount, mass, radius, volume, temp, cubicParts1, cubicParts2,
          sideLength, velNormalized, attrs, pos, vel, partBelonging, tape,
          draws, idx, pc, err, dt, pairs, steps>>

config == <<partCount, mass, radius, volume, temp>>
derived == <<cubicParts1, cubicParts2, sideLength, velNormalized>>
stepVars == <<dt, pairs, steps>>

(***************************************************************************)
(* Bounds of the exploration.                                              *)
(***************************************************************************)
MaxSteps == 2
MaxDen == 4
TapeLen == 7

\* Boltzmann constant of line 35, in the model's units of mass and time.
KB == 4

(***************************************************************************)
(* float64 arithmetic, exact on rationals, NaN-propagating.                *)
(***************************************************************************)
NaN == <<0, 0>>

IsNaN(a) == a[2] = 0

Abs(n) == IF n < 0 THEN -n ELSE n

RECURSIVE GCD(_, _)
GCD(a, b) == IF b = 0 THEN a ELSE GCD(b, a % b)

Norm(n, d) ==
    IF d = 0 THEN NaN
    ELSE LET g == GCD(Abs(n), Abs(d))
             s == IF d < 0 THEN -1 ELSE 1
         IN  <<(s * n) \div g, (s * d) \div g>>

R(n) == <<n, 1>>

\* Sums and products reduce by common factors before they multiply, which
\* keeps the intermediate integers small; the value is the same.
RAdd(a, b) ==
    IF IsNaN(a) \/ IsNaN(b) THEN NaN
    ELSE LET g == GCD(a[2], b[2])
         IN  Norm(a[1] * (b[2] \div g) + b[1] * (a[2] \div g),
                  (a[2] \div g) * b[2])

RNeg(a) == IF IsNaN(a) THEN NaN ELSE <<-a[1], a[2]>>

RSub(a, b) == RAdd(a, RNeg(b))

RMul(a, b) ==
    IF IsNaN(a) \/ IsNaN(b) THEN NaN
    ELSE LET g == GCD(Abs(a[1]), b[2])
             h == GCD(Abs(b[1]), a[2])
         IN  Norm((a[1] \div g) * (b[1] \div h), (a[2] \div h) * (b[2] \div g))

\* The only division by zero the code can make is 0/0 (line 166: the divisor
\* dot(n, n) is zero only when n, and so the dividend, is zero): NaN.
RDiv(a, b) == IF IsNaN(a) \/ IsNaN(b) \/ b[1] = 0 THEN NaN
              ELSE IF b[1] < 0 THEN RMul(a, <<-b[2], -b[1]>>)
              ELSE RMul(a, <<b[2], b[1]>>)

\* Comparisons with NaN are False.
RLt(a, b) ==
    /\ ~IsNaN(a)
    /\ ~IsNaN(b)
    /\ LET g == GCD(a[2], b[2])
       IN  a[1] * (b[2] \div g) < b[1] * (a[2] \div g)

RLe(a, b) == RLt(a, b) \/ (~IsNaN(a) /\ a = b)

REq(a, b) == ~IsNaN(a) /\ ~IsNaN(b) /\ a = b

Axes == 1..3

Zero3 == <<R(0), R(0), R(0)>>

VAdd(u, v) == [k \in Axes |-> RAdd(u[k], v[k])]

VSub(u, v) == [k \in Axes |-> RSub(u[k], v[k])]

VScale(c, v) == [k \in Axes |-> RMul(c, v[k])]

VDivS(v, c) == [k \in Axes |-> RDiv(v[k], c)]

Dot(u, v) == RAdd(RAdd(RMul(u[1], v[1]), RMul(u[2], v[2])), RMul(u[3], v[3]))

VEq(u, v) == \A k \in Axes : REq(u[k], v[k])

(***************************************************************************)
(* The random generator: rand() hands out the tape's values in order,      *)
(* starting over at its end.  Every value lies in [0, 1).                  *)
(***************************************************************************)
RandValues == {<<0, 1>>, <<1, 10>>, <<4, 5>>}

Tapes == [1..TapeLen -> RandValues]

Draw(tp, k) == tp[(k % Len(tp)) + 1]

(***************************************************************************)
(* Quantities derived in __init__ and SetParticles.                        *)
(***************************************************************************)
\* int(np.floor(n ** (1 / 3))), line 27 (exact for the counts used here).
CubicParts(n) == CHOOSE c \in 0..n : c * c * c <= n /\ n < (c + 1) * (c + 1) * (c + 1)

\* volume ** (1 / 3), line 34, for the volumes used here (perfect cubes).
CubeRoot(v) == CHOOSE s \in 0..1200 : s * s * s = v

ISqrt(x) == CHOOSE s \in 0..x : s * s = x

\* (3 * 1.87e-23 * T / mass) ** (1 / 2), line 35, for mass # 0.
ThermalSpeed(T, m) ==
    LET q == RDiv(R(3 * KB * T), R(m)) IN <<ISqrt(q[1]), ISqrt(q[2])>>

\* np.zeros((n, 3)), lines 24, 25, 77.
Zeros(n) == [i \in 0..(n - 1) |-> Zero3]

\* np.linspace(start, stop, num), line 57.
Linspace(start, stop, num) ==
    [k \in 0..(num - 1) |->
        IF num = 1 THEN start
        ELSE RAdd(start, RDiv(RMul(R(k), RSub(stop, start)), R(num - 1)))]

\* dists of line 57.
Dists(n, r, L) == Linspace(R(r * 5), R(L - r * 5), CubicParts(n))

\* The jitter with the factor 0.5 left out.
JitterFullRadius(u, r) == RMul(u, R(r))

\* random.rand(1)[0] * (self.radius * 0.5), lines 80-82.
Jitter(u, r) == RMul(u, RMul(R(r), <<1, 2>>))

\* The row written to self.pos[i, :] by lines 79-82; base is the number of
\* values drawn before it.
PlaceRow(i, n, r, L, tp, base) ==
    LET c1 == CubicParts(n)
        c2 == c1 * c1
        t == i % (c1 * c1 * c1)
        d == Dists(n, r, L)
    IN  <<RAdd(d[t % c1], Jitter(Draw(tp, base), r)),
          RAdd(d[(t % c2) \div c1], Jitter(Draw(tp, base + 1), r)),
          RAdd(d[t \div c2], Jitter(Draw(tp, base + 2), r))>>

\* random.uniform(-1, 1, (n, 3)) * self.velNormalized, line 92: row i.
\* uniform(low, high) is low + (high - low) * rand().
VelRow(i, V, tp, base) ==
    [k \in Axes |->
        RMul(RAdd(R(-1), RMul(R(2), Draw(tp, base + 3 * i + (k - 1)))), V)]

(***************************************************************************)
(* __init__, lines 15-39.  Lines 41-45 follow a statement that always      *)
(* raises and are never executed.  self.b (line 33) is used nowhere.       *)
(***************************************************************************)
\* Lines 19-28.
InitFields ==
    /\ pc = "ctor"
    /\ IF partCount < 0
       THEN \* line 24: np.zeros with a negative dimension
            /\ err' = "ValueError"
            /\ pc' = "raised"
            /\ UNCHANGED <<attrs, pos, vel, cubicParts1, cubicParts2>>
       ELSE /\ pos' = Zeros(partCount)
            /\ vel' = Zeros(partCount)
            /\ attrs' = attrs \cup {"pos", "vel", "particleCell"}
            /\ cubicParts1' = CubicParts(partCount)
            /\ cubicParts2' = CubicParts(partCount) * CubicParts(partCount)
            /\ pc' = "derive"
            /\ err' = err
    /\ UNCHANGED <<config, sideLength, velNormalized, partBelonging, tape,
                   draws, idx, stepVars>>

\* Lines 33-35.
Derive ==
    /\ pc = "derive"
    /\ sideLength' = CubeRoot(volume)
    /\ IF mass = 0
       THEN \* line 35: float division by zero
            /\ err' = "ZeroDivisionError"
            /\ pc' = "raised"
            /\ velNormalized' = velNormalized
       ELSE /\ velNormalized' = ThermalSpeed(temp, mass)
            /\ pc' = "SetParticles"
            /\ err' = err
    /\ UNCHANGED <<config, cubicParts1, cubicParts2, attrs, pos, vel,
                   partBelonging, tape, draws, idx, stepVars>>

(***************************************************************************)
(* SetParticles, lines 47-92.                                              *)
(***************************************************************************)
\* Lines 57 and 77.
SetParticlesBegin ==
    /\ pc = "SetParticles"
    /\ pos' = Zeros(partCount)
    /\ idx' = 0
    /\ pc' = "place"
    /\ UNCHANGED <<config, derived, attrs, vel, partBelonging, tape, draws,
                   err, stepVars>>

\* One iteration of the loop of lines 78-83.
PlaceParticle ==
    /\ pc = "place"
    /\ idx < partCount
    /\ pos' = [pos EXCEPT ![idx] =
                  PlaceRow(idx, partCount, radius, sideLength, tape, draws)]
    /\ draws' = draws + 3
    /\ IF "partBelonging" \in attrs
       THEN /\ partBelonging' =
                  [partBelonging EXCEPT
                      ![idx % (cubicParts1 * cubicParts1 * cubicParts1)] = idx]
            /\ idx' = idx + 1
            /\ UNCHANGED <<pc, err>>
       ELSE \* line 83: self.partBelonging does not exist yet
            /\ err' = "AttributeError"
            /\ pc' = "raised"
            /\ UNCHANGED <<partBelonging, idx>>
    /\ UNCHANGED <<config, derived, attrs, vel, tape, stepVars>>

\* Line 92, after the loop.
AssignVelocities ==
    /\ pc = "place"
    /\ idx >= partCount
    /\ vel' = [i \in 0..(partCount - 1) |-> VelRow(i, velNormalized, tape, draws)]
    /\ draws' = draws + 3 * partCount
    /\ pc' = "SetGraphs"
    /\ UNCHANGED <<config, derived, attrs, pos, partBelonging, tape, idx, err,
                   stepVars>>

\* SetGraphs, lines 94-120: the figure and the histogram data.
SetGraphs ==
    /\ pc = "SetGraphs"
    /\ attrs' = attrs \cup {"figure", "vel_hist_data"}
    /\ pc' = "table"
    /\ UNCHANGED <<config, derived, pos, vel, partBelonging, tape, draws, idx,
                   err, stepVars>>

\* Line 39: np.zeros(self.cubicParts1 ** 3, 7) passes 7 as the dtype.
CreateTable ==
    /\ pc = "table"
    /\ err' = "TypeError"
    /\ pc' = "raised"
    /\ UNCHANGED <<config, derived, attrs, pos, vel, partBelonging, tape,
                   draws, idx, stepVars>>

(***************************************************************************)
(* The constructor, from its arguments.                                    *)
(***************************************************************************)
CtorCounts == {-1, 0, 1, 2, 8}
CtorMasses == {0, 1}
CtorRadii == {0, 100}
CtorVolumes == {0, 1000000000}
CtorTemps == {0, 300}
CtorTapes == {tp \in Tapes : \A k \in 4..TapeLen : tp[k] = <<0, 1>>}

InitCtor ==
    /\ partCount \in CtorCounts
    /\ mass \in CtorMasses
    /\ radius \in CtorRadii
    /\ volume \in CtorVolumes
    /\ temp \in CtorTemps
    /\ cubicParts1 = 0
    /\ cubicParts2 = 0
    /\ sideLength = 0
    /\ velNormalized = R(0)
    /\ attrs = {}
    /\ pos = <<>>
    /\ vel = <<>>
    /\ partBelonging = <<>>
    /\ tape \in CtorTapes
    /\ draws = 0
    /\ idx = 0
    /\ pc = "ctor"
    /\ err = "none"
    /\ dt = 0
    /\ pairs = <<>>
    /\ steps = 0

NextCtor ==
    \/ InitFields
    \/ Derive
    \/ SetParticlesBegin
    \/ PlaceParticle
    \/ AssignVelocities
    \/ SetGraphs
    \/ CreateTable

SpecCtor == InitCtor /\ [][NextCtor]_vars

(***************************************************************************)
(* SetParticles on its own, called on an object whose fields are those     *)
(* lines 19-35 compute and whose partBelonging table exists.               *)
(***************************************************************************)
PlaceCounts == {1, 2, 8}
PlaceRadii == {100}
PlaceVolumes == {512000000, 1000000000, 1728000000}

InitPlace ==
    /\ partCount \in PlaceCounts
    /\ mass = 1
    /\ radius \in PlaceRadii
    /\ volume \in PlaceVolumes
    /\ temp = 300
    /\ cubicParts1 = CubicParts(partCount)
    /\ cubicParts2 = CubicParts(partCount) * CubicParts(partCount)
    /\ sideLength = CubeRoot(volume)
    /\ velNormalized = ThermalSpeed(temp, mass)
    /\ attrs = {"pos", "vel", "particleCell", "partBelonging"}
    /\ pos = Zeros(partCount)
    /\ vel = Zeros(partCount)
    /\ partBelonging =
          [s \in 0..(cubicParts1 * cubicParts1 * cubicParts1 - 1) |-> 0]
    /\ tape \in Tapes
    /\ draws = 0
    /\ idx = 0
    /\ pc = "SetParticles"
    /\ err = "none"
    /\ dt = 0
    /\ pairs = <<>>
    /\ steps = 0

NextPlace ==
    \/ SetParticlesBegin
    \/ PlaceParticle
    \/ AssignVelocities

SpecPlace == InitPlace /\ [][NextPlace]_vars

(***************************************************************************)
(* Step, lines 122-197.                                                    *)
(***************************************************************************)
\* distances[i, j] < 2 * self.radius, lines 155-156: pdist is the square
\* root of the squared distance, and a comparison with NaN is False.
Overlap(a, b) ==
    /\ 0 < 2 * radius
    /\ RLt(Dot(VSub(a, b), VSub(a, b)), R(4 * radius * radius))

\* Lines 155-159: np.where walks the distance matrix row by row, and
\* ind1 < ind2 keeps each unordered pair once.
CollidingPairs(p) ==
    LET n == partCount
        cells == [k \in 1..(n * n) |-> <<(k - 1) \div n, (k - 1) % n>>]
        Hit(c) == Overlap(p[c[1]], p[c[2]])
        Unique(c) == c[1] < c[2]
        Keep(c) == Hit(c) /\ Unique(c)
    IN  SelectSeq(cells, Keep)

\* The exploration follows an ensemble while its numbers stay small: every
\* component is NaN or has a denominator of at most MaxDen.
Small ==
    \A i \in DOMAIN pos : \A k \in Axes :
        pos[i][k][2] <= MaxDen /\ vel[i][k][2] <= MaxDen

\* Line 141, and the pair selection of lines 155-159.
StepCall(d) ==
    /\ pc = "idle"
    /\ steps < MaxSteps
    /\ Small
    /\ dt' = d
    /\ LET moved == [i \in DOMAIN pos |-> VAdd(pos[i], VScale(R(d), vel[i]))]
       IN  /\ pos' = moved
           /\ pairs' = CollidingPairs(moved)
    /\ pc' = "collide"
    /\ UNCHANGED <<config, derived, attrs, vel, partBelonging, tape, draws,
                   idx, err, steps>>

\* Lines 163-168 for the pair (i1, i2): the two new velocities.
Collide(i1, i2) ==
    LET vel_cm == VDivS(VAdd(vel[i1], vel[i2]), R(2))
        vec_normal == VSub(pos[i1], pos[i2])
        vel_normal == VSub(vel[i1], vel[i2])
        vel_change ==
            VSub(VDivS(VScale(RMul(R(2), Dot(vec_normal, vel_normal)), vec_normal),
                       Dot(vec_normal, vec_normal)),
                 vel_normal)
    IN  <<VSub(vel_cm, VDivS(vel_change, R(2))),
          VAdd(vel_cm, VDivS(vel_change, R(2)))>>

\* One iteration of the loop of lines 162-170.
Resolve ==
    /\ pc = "collide"
    /\ pairs # <<>>
    /\ LET i1 == Head(pairs)[1]
           i2 == Head(pairs)[2]
           new == Collide(i1, i2)
       IN  /\ vel' = [vel EXCEPT ![i1] = new[1], ![i2] = new[2]]
           /\ pos' = [pos EXCEPT
                        ![i1] = VAdd(pos[i1], VScale(R(dt), new[1])),
                        ![i2] = VAdd(pos[i2], VScale(R(dt), new[2]))]
    /\ pairs' = Tail(pairs)
    /\ UNCHANGED <<config, derived, attrs, partBelonging, tape, draws, idx,
                   pc, err, dt, steps>>

\* self.radius * 1.01
Margin == RMul(R(radius), <<101, 100>>)

\* The first test of an axis, lines 174, 186, 192.
BelowLow(p) == RLt(RSub(p, R(radius)), R(0))

\* The coordinate after the first test's branch, lines 174-176.
AfterLow(p) == IF BelowLow(p) THEN Margin ELSE p

\* The second test of an axis, lines 183, 189, 195, on the coordinate the
\* first test left.
AboveHigh(p) == RLt(R(sideLength), RAdd(AfterLow(p), R(radius)))

\* Lines 174-185 for one coordinate p with velocity component v:
\* the coordinate and the component after both tests.
WallAxis(p, v) ==
    LET v1 == IF BelowLow(p) THEN RNeg(v) ELSE v
    IN  IF AboveHigh(p)
        THEN <<RSub(R(sideLength), Margin), RNeg(v1)>>
        ELSE <<AfterLow(p), v1>>

\* The loop of lines 173-197, after which Step returns.
Walls ==
    /\ pc = "collide"
    /\ pairs = <<>>
    /\ pos' = [i \in DOMAIN pos |->
                 [k \in Axes |-> WallAxis(pos[i][k], vel[i][k])[1]]]
    /\ vel' = [i \in DOMAIN vel |->
                 [k \in Axes |-> WallAxis(pos[i][k], vel[i][k])[2]]]
    /\ pc' = "idle"
    /\ steps' = steps + 1
    /\ UNCHANGED <<config, derived, attrs, partBelonging, tape, draws, idx,
                   err, dt, pairs>>

(***************************************************************************)
(* Step on an initialized ensemble: the positions and velocities that      *)
(* lines 57-92 compute, then Step calls with arguments from DtValues.      *)
(***************************************************************************)
StepCounts == {1, 2}
StepVolumes == {216000000}
StepTemps == {300}
DtValues == {-1, 0, 1, 2}
StepTapes(n) == {tp \in Tapes : \A k \in (6 * n + 1)..TapeLen : tp[k] = <<0, 1>>}

InitStep ==
    /\ partCount \in StepCounts
    /\ mass = 1
    /\ radius = 100
    /\ volume \in StepVolumes
    /\ temp \in StepTemps
    /\ cubicParts1 = CubicParts(partCount)
    /\ cubicParts2 = CubicParts(partCount) * CubicParts(partCount)
    /\ sideLength = CubeRoot(volume)
    /\ velNormalized = ThermalSpeed(temp, mass)
    /\ attrs = {"pos", "vel", "particleCell", "partBelonging", "figure",
                "vel_hist_data"}
    /\ tape \in StepTapes(partCount)
    /\ pos = [i \in 0..(partCount - 1) |->
                PlaceRow(i, partCount, radius, sideLength, tape, 3 * i)]
    /\ vel = [i \in 0..(partCount - 1) |->
                VelRow(i, velNormalized, tape, 3 * partCount)]
    /\ partBelonging =
          [s \in 0..(cubicParts1 * cubicParts1 * cubicParts1 - 1) |->
              CHOOSE i \in 0..(partCount - 1) :
                  /\ i % (cubicParts1 * cubicParts1 * cubicParts1) = s
                  /\ \A j \in 0..(partCount - 1) :
                        j % (cubicParts1 * cubicParts1 * cubicParts1) = s => j <= i]
    /\ draws = 6 * partCount
    /\ idx = partCount
    /\ pc = "idle"
    /\ err = "none"
    /\ dt = 0
    /\ pairs = <<>>
    /\ steps = 0

NextStep ==
    \/ \E d \in DtValues : StepCall(d)
    \/ Resolve
    \/ Walls

SpecStep == InitStep /\ [][NextStep]_vars

(***************************************************************************)
(* The same, with the Step calls the driver makes: dt > 0.                 *)
(***************************************************************************)
NextRun ==
    \/ \E d \in DtValues : d > 0 /\ StepCall(d)
    \/ Resolve
    \/ Walls

SpecRun == InitStep /\ [][NextRun]_vars

(***************************************************************************)
(* Claims.                                                                 *)
(***************************************************************************)
Returned == pc = "idle" /\ steps > 0

Resolving == pc = "collide" /\ pairs # <<>>

WallPhase == pc = "collide" /\ pairs = <<>>

Particles == DOMAIN pos

\* C1: when a Step call with dt > 0 returns, every coordinate of every
\* particle lies within [radius, sideLength - radius].
C1_Containment ==
    Returned =>
        \A i \in Particles : \A k \in Axes :
            /\ RLe(R(radius), pos[i][k])
            /\ RLe(pos[i][k], R(sideLength - radius))

\* C2: resolving a pair (i1, i2) leaves v_i1 + v_i2 as it was.
C2_Momentum ==
    [][Resolving =>
          LET i1 == Head(pairs)[1]
              i2 == Head(pairs)[2]
          IN  VEq(VAdd(vel'[i1], vel'[i2]), VAdd(vel[i1], vel[i2]))]_vars

\* C3: resolving a pair (i1, i2) leaves |v_i1|^2 + |v_i2|^2 as it was.
C3_Energy ==
    [][Resolving =>
          LET i1 == Head(pairs)[1]
              i2 == Head(pairs)[2]
          IN  REq(RAdd(Dot(vel'[i1], vel'[i1]), Dot(vel'[i2], vel'[i2])),
                  RAdd(Dot(vel[i1], vel[i1]), Dot(vel[i2], vel[i2])))]_vars

\* C4: while the Step call in progress has dt <= 0, no step of it changes
\* the position or the velocity of any particle.
C4_InvalidDtRejected ==
    [][dt' <= 0 => (pos' = pos /\ vel' = vel)]_vars

\* C5: no position or velocity component is ever NaN (the result of the
\* division 0/0 for a pair with coincident centers).
C5_NoDivisionByZero ==
    \A i \in Particles : \A k \in Axes :
        ~IsNaN(pos[i][k]) /\ ~IsNaN(vel[i][k])

\* C7: after resolving an overlapping pair whose centers do not coincide,
\* the pair moves apart along the normal used: dot(n, v_i1' - v_i2') > 0.
C7_Separation ==
    [][Resolving =>
          LET i1 == Head(pairs)[1]
              i2 == Head(pairs)[2]
              n == VSub(pos[i1], pos[i2])
          IN  (\A k \in Axes : ~IsNaN(n[k])) /\ n # Zero3 =>
                  RLt(R(0), Dot(n, VSub(vel'[i1], vel'[i2])))]_vars

\* C10: when the wall phase clamps a coordinate to a wall, the velocity
\* component on that axis at the return of Step points into the chamber.
C10_BounceInward ==
    [][WallPhase =>
          \A i \in Particles : \A k \in Axes :
              /\ BelowLow(pos[i][k]) /\ ~AboveHigh(pos[i][k]) => RLe(R(0), vel'[i][k])
              /\ AboveHigh(pos[i][k]) => RLe(vel'[i][k], R(0))]_vars

ValidConfig ==
    partCount > 0 /\ mass > 0 /\ radius > 0 /\ volume > 0 /\ temp > 0

\* C6: a constructor call with a non-positive argument never builds any
\* part of the ensemble state (position array, velocity array, table).
C6_ConfigErrorFailsFast ==
    ~ValidConfig => attrs = {}

\* C9: a constructor call with valid positive arguments raises nothing; in
\* particular SetParticles does not use the partition table before it exists.
C9_ConstructionCompletes ==
    ValidConfig => err = "none"

PerfectCube(n) == CubicParts(n) * CubicParts(n) * CubicParts(n) = n

\* The rows SetParticles has written so far.
Placed == {i \in DOMAIN pos : i < idx}

\* C8 as claimed: for a perfect cube N, every coordinate of every placed
\* particle lies within [5 * radius, sideLength - 5 * radius].
C8_PlacementBounds ==
    PerfectCube(partCount) =>
        \A i \in Placed : \A k \in Axes :
            /\ RLe(R(5 * radius), pos[i][k])
            /\ RLe(pos[i][k], R(sideLength - 5 * radius))

\* C8 as amended: for a perfect cube N and sideLength >= 10 * radius, every
\* coordinate of every placed particle lies within
\* [5 * radius, sideLength - 5 * radius + 0.5 * radius).
C8_PlacementBoundsWithJitter ==
    PerfectCube(partCount) /\ sideLength >= 10 * radius =>
        \A i \in Placed : \A k \in Axes :
            /\ RLe(R(5 * radius), pos[i][k])
            /\ RLt(pos[i][k],
                   RAdd(R(sideLength - 5 * radius), RMul(R(radius), <<1, 2>>)))

\* A finished placement of a perfect cube of particles in which a jittered
\* coordinate on the last grid line lies beyond sideLength - 5 * radius.
C8_Witness ==
    /\ pc = "SetGraphs"
    /\ partCount > 1
    /\ PerfectCube(partCount)
    /\ sideLength >= 10 * radius
    /\ \E i \in Placed : \E k \in Axes :
          RLt(R(sideLength - 5 * radius), pos[i][k])
====
